---- MODULE Spec2Model ----
(***************************************************************************)
(* Model of the pizza-order API: the event routes (routes_eventos.py), the *)
(* registration route (routes_auth.py) and the request schemas             *)
(* (models.py), over the relational tables the SQL statements touch.       *)
(*                                                                         *)
(* Timestamps and dates are small integers, money is an integer amount.    *)
(* Every handler is one action in the sequential specifications (Spec,     *)
(* SpecPedidos, SpecAuth): a handler is an `async def` without any await,  *)
(* so one server process runs it to completion.  SpecConc splits the       *)
(* handlers at their SQL statements, each of which is its own database     *)
(* round trip, and interleaves the statements of several server workers.   *)
(***************************************************************************)
EXTENDS Integers, Sequences, FiniteSets, TLC

\* ------------------------------------------------------------- bounds
\* identity values the eventos table hands out
MaxEventoId == 2
\* the clock runs 0..MaxTime, deadlines are 1..MaxTime
MaxTime == 2
\* identity values the pedidos table hands out
MaxPedidoId == 2
\* identity values the usuarios table hands out
MaxUsuarioId == 2
\* server workers whose statements interleave in SpecConc
NumWorkers == 2

\* --------------------------------------------------- program constants
\* slices of one whole pizza (total_pedacos // 8)
PedacosPorPizza == 8
\* ItemPedidoCreate.quantidade: gt=0, le=8
MaxQuantidade == 8

HTTP_200_OK == 200
HTTP_201_CREATED == 201
HTTP_204_NO_CONTENT == 204
HTTP_400_BAD_REQUEST == 400
HTTP_401_UNAUTHORIZED == 401
HTTP_403_FORBIDDEN == 403
HTTP_404_NOT_FOUND == 404
\* an exception no handler catches
HTTP_500_INTERNAL == 500

VARIABLES
    usuarios,       \* table usuarios: set of rows
    eventos,        \* table eventos: set of rows
    pedidos,        \* table pedidos: set of rows
    itens,          \* table itens_pedido: set of rows
    nextUsuarioId,  \* identity column of usuarios
    nextEventoId,   \* identity column of eventos
    nextPedidoId,   \* identity column of pedidos
    now,            \* SYSTIMESTAMP
    pc,             \* per worker: idle, recebido, a statement, respondido
    req,            \* per worker: the request it is serving
    resp            \* per worker: the response it is about to send

vars == <<usuarios, eventos, pedidos, itens, nextUsuarioId, nextEventoId,
          nextPedidoId, now, pc, req, resp>>

tables == <<usuarios, eventos, pedidos, itens, nextUsuarioId, nextEventoId,
            nextPedidoId>>

\* ------------------------------------------------------------- values
\* SQL NULL / Python None, for a string and for a number
NULL == "NULL"
None == -1

\* the calendar dates requests name
Datas == {1, 2}
Limites == 1..MaxTime
Workers == 1..NumWorkers
EventoIds == 1..(MaxEventoId + 1)

\* EventoUpdate.status: pattern ^(ABERTO|FECHADO|FINALIZADO)$
StatusEvento == {"ABERTO", "FECHADO", "FINALIZADO"}

\* a bearer credential: 0 is a missing or invalid token, n > 0 a token whose
\* subject is user id n
SemCredencial == 0

Evento(id, d, l, s) ==
    [id |-> id, data_evento |-> d, data_limite |-> l, status |-> s]

NoStats ==
    [total_participantes |-> None, total_pedidos |-> None,
     total_pizzas |-> None, valor_total |-> None]

\* a request: the route, the bearer credential, the path parameter and the
\* fields of the body (status is also the stray status field of a
\* criar_evento body, which EventoCreate does not declare)
NoReq ==
    [op |-> "none", cred |-> SemCredencial, id |-> None, data_evento |-> None,
     data_limite |-> None, status |-> NULL, itens |-> <<>>,
     nome_completo |-> NULL, setor |-> NULL, senha |-> NULL, is_admin |-> FALSE]

\* a response: the status code, the rows of the body, the order count of
\* deletar_evento's message and the aggregates of obter_resumo_evento
Resp(code, body, n, stats) ==
    [code |-> code, body |-> body, n |-> n, stats |-> stats]

NoResp == Resp(None, <<>>, None, NoStats)

\* ---------------------------------------------------------------- auth
\* get_password_hash: a one-way hash of the password
GetPasswordHash(senha) == <<"hash", senha>>

\* the two accounts the event specifications start with: what register
\* leaves after an admin "ana" and a user "bob" signed up (SpecAuth)
SeedUsuarios ==
    { [id |-> 1, nome_completo |-> "ana", setor |-> "TI",
       senha_hash |-> GetPasswordHash("s1"), is_admin |-> TRUE],
      [id |-> 2, nome_completo |-> "bob", setor |-> "RH",
       senha_hash |-> GetPasswordHash("s2"), is_admin |-> FALSE] }

Credenciais == {SemCredencial, 1, 2}

\* get_current_user: 200, or the status the dependency ends the request with
GetCurrentUser(cred) ==
    IF \E u \in usuarios : u.id = cred THEN HTTP_200_OK
    ELSE HTTP_401_UNAUTHORIZED

\* get_current_admin_user: get_current_user, then the admin flag
GetCurrentAdminUser(cred) ==
    IF GetCurrentUser(cred) # HTTP_200_OK THEN GetCurrentUser(cred)
    ELSE IF \E u \in usuarios : u.id = cred /\ u.is_admin THEN HTTP_200_OK
    ELSE HTTP_403_FORBIDDEN

\* the dependency each route declares
ListarEventosAuth(cred) == GetCurrentUser(cred)
ObterEventoAtivoAuth(cred) == GetCurrentUser(cred)
ObterEventoAuth(cred) == GetCurrentUser(cred)
CriarEventoAuth(cred) == GetCurrentAdminUser(cred)
AtualizarEventoAuth(cred) == GetCurrentAdminUser(cred)
ObterResumoEventoAuth(cred) == GetCurrentAdminUser(cred)
\* (variant) the route depends on get_current_user
DeletarEventoAuthUsuario(cred) == GetCurrentUser(cred)
DeletarEventoAuth(cred) == GetCurrentAdminUser(cred)
CriarPedidoAuth(cred) == GetCurrentUser(cred)

\* ------------------------------------------------------ SQL statements
\* SELECT id FROM eventos WHERE data_evento = :data
SelectPorData(evs, d) == {e \in evs : e.data_evento = d}

\* SELECT ... FROM eventos WHERE id = :evento_id
SelectPorId(evs, id) == {e \in evs : e.id = id}

\* (variant) the status is taken from the body when it carries one
StatusInicialDoCorpo(s) == IF s = NULL THEN "ABERTO" ELSE s

\* VALUES (:data_evento, :data_limite, 'ABERTO'): the status is a literal of
\* the statement, whatever status field (s) the body carried
StatusInicial(s) == "ABERTO"

\* INSERT INTO eventos (data_evento, data_limite, status) VALUES (...)
InsertEvento(evs, id, d, l, s) == evs \cup {Evento(id, d, l, StatusInicial(s))}

\* (variant) both columns are always written, a missing field as NULL
UpdateRowCompleto(e, s, l) == [e EXCEPT !.status = s, !.data_limite = l]

\* SET status = :status, data_limite = :data_limite, each clause present
\* when its field is not None
UpdateRow(e, s, l) ==
    [e EXCEPT !.status = IF s # NULL THEN s ELSE @,
              !.data_limite = IF l # None THEN l ELSE @]

\* UPDATE eventos SET ... WHERE id = :evento_id
UpdateEvento(evs, id, s, l) ==
    {IF e.id = id THEN UpdateRow(e, s, l) ELSE e : e \in evs}

\* if not updates
SemCampos(s, l) == s = NULL /\ l = None

\* DELETE FROM eventos WHERE id = :evento_id
DeleteEvento(evs, id) == {e \in evs : e.id # id}

\* SELECT COUNT(*) FROM pedidos WHERE evento_id = :evento_id
CountPedidos(peds, id) == Cardinality({p \in peds : p.evento_id = id})

\* (variant) if result[0] > 1
TemMaisDeUmPedido(n) == n > 1

\* if result[0] > 0
TemPedidos(n) == n > 0

\* ORDER BY data_evento DESC: every order of the rows the clause allows
RECURSIVE OrderByDataDesc(_)
OrderByDataDesc(S) ==
    IF S = {} THEN {<<>>}
    ELSE UNION { {<<e>> \o t : t \in OrderByDataDesc(S \ {e})} :
                 e \in {x \in S : \A y \in S : y.data_evento <= x.data_evento} }

\* (variant) data_limite >= SYSTIMESTAMP
LimiteNaoPassado(l, t) == l >= t

\* data_limite > SYSTIMESTAMP
LimiteFuturo(l, t) == l > t

\* WHERE status = 'ABERTO' AND data_limite > SYSTIMESTAMP
EventosAtivos(evs, t) ==
    {e \in evs : e.status = "ABERTO" /\ LimiteFuturo(e.data_limite, t)}

\* ... ORDER BY data_evento DESC FETCH FIRST 1 ROWS ONLY: the rows the
\* statement may return
PrimeiroAtivo(evs, t) == {rows[1] : rows \in OrderByDataDesc(EventosAtivos(evs, t)) \ {<<>>}}

\* ---------------------------------------------------- request plumbing
\* a request arrives at an idle worker
Receber(w, r) ==
    /\ pc[w] = "idle"
    /\ pc' = [pc EXCEPT ![w] = "recebido"]
    /\ req' = [req EXCEPT ![w] = r]
    /\ UNCHANGED <<tables, now, resp>>

\* the handler of worker w returns or raises
Retorna(w, code, body, n, stats) ==
    /\ pc' = [pc EXCEPT ![w] = "respondido"]
    /\ resp' = [resp EXCEPT ![w] = Resp(code, body, n, stats)]
    /\ UNCHANGED <<req, now>>

\* raise HTTPException(status_code=code), before any write
Raise(w, code) ==
    /\ Retorna(w, code, <<>>, None, NoStats)
    /\ UNCHANGED tables

\* the response is sent and the worker is idle again
Responder(w) ==
    /\ pc[w] = "respondido"
    /\ pc' = [pc EXCEPT ![w] = "idle"]
    /\ req' = [req EXCEPT ![w] = NoReq]
    /\ resp' = [resp EXCEPT ![w] = NoResp]
    /\ UNCHANGED <<tables, now>>

Serving(w, op) == pc[w] = "recebido" /\ req[w].op = op

\* ------------------------------------------------------ event handlers
listar_eventos(w) ==
    /\ Serving(w, "listar_eventos")
    /\ IF ListarEventosAuth(req[w].cred) # HTTP_200_OK
       THEN Raise(w, ListarEventosAuth(req[w].cred))
       ELSE /\ \E rows \in OrderByDataDesc(eventos) :
                  Retorna(w, HTTP_200_OK, rows, None, NoStats)
            /\ UNCHANGED tables

obter_evento_ativo(w) ==
    /\ Serving(w, "obter_evento_ativo")
    /\ IF ObterEventoAtivoAuth(req[w].cred) # HTTP_200_OK
       THEN Raise(w, ObterEventoAtivoAuth(req[w].cred))
       ELSE IF PrimeiroAtivo(eventos, now) = {}
       THEN Raise(w, HTTP_404_NOT_FOUND)
       ELSE /\ \E row \in PrimeiroAtivo(eventos, now) :
                  Retorna(w, HTTP_200_OK, <<row>>, None, NoStats)
            /\ UNCHANGED tables

obter_evento(w) ==
    /\ Serving(w, "obter_evento")
    /\ IF ObterEventoAuth(req[w].cred) # HTTP_200_OK
       THEN Raise(w, ObterEventoAuth(req[w].cred))
       ELSE IF SelectPorId(eventos, req[w].id) = {}
       THEN Raise(w, HTTP_404_NOT_FOUND)
       ELSE /\ \E row \in SelectPorId(eventos, req[w].id) :
                  Retorna(w, HTTP_200_OK, <<row>>, None, NoStats)
            /\ UNCHANGED tables

criar_evento(w) ==
    /\ Serving(w, "criar_evento")
    /\ LET r == req[w] IN
       IF CriarEventoAuth(r.cred) # HTTP_200_OK
       THEN Raise(w, CriarEventoAuth(r.cred))
       ELSE IF SelectPorData(eventos, r.data_evento) # {}
       THEN Raise(w, HTTP_400_BAD_REQUEST)
       ELSE /\ nextEventoId <= MaxEventoId
            /\ eventos' = InsertEvento(eventos, nextEventoId, r.data_evento,
                                       r.data_limite, r.status)
            /\ nextEventoId' = nextEventoId + 1
            /\ \E row \in SelectPorData(eventos', r.data_evento) :
                  Retorna(w, HTTP_201_CREATED, <<row>>, None, NoStats)
            /\ UNCHANGED <<usuarios, pedidos, itens, nextUsuarioId, nextPedidoId>>

atualizar_evento(w) ==
    /\ Serving(w, "atualizar_evento")
    /\ LET r == req[w] IN
       IF AtualizarEventoAuth(r.cred) # HTTP_200_OK
       THEN Raise(w, AtualizarEventoAuth(r.cred))
       ELSE IF SelectPorId(eventos, r.id) = {}
       THEN Raise(w, HTTP_404_NOT_FOUND)
       ELSE IF SemCampos(r.status, r.data_limite)
       THEN Raise(w, HTTP_400_BAD_REQUEST)
       ELSE /\ eventos' = UpdateEvento(eventos, r.id, r.status, r.data_limite)
            /\ \E row \in SelectPorId(eventos', r.id) :
                  Retorna(w, HTTP_200_OK, <<row>>, None, NoStats)
            /\ UNCHANGED <<usuarios, pedidos, itens, nextUsuarioId, nextEventoId,
                           nextPedidoId>>

deletar_evento(w) ==
    /\ Serving(w, "deletar_evento")
    /\ LET r == req[w] IN
       IF DeletarEventoAuth(r.cred) # HTTP_200_OK
       THEN Raise(w, DeletarEventoAuth(r.cred))
       ELSE IF TemPedidos(CountPedidos(pedidos, r.id))
       THEN /\ Retorna(w, HTTP_400_BAD_REQUEST, <<>>, CountPedidos(pedidos, r.id),
                       NoStats)
            /\ UNCHANGED tables
       ELSE IF SelectPorId(eventos, r.id) = {}
       THEN Raise(w, HTTP_404_NOT_FOUND)
       ELSE /\ eventos' = DeleteEvento(eventos, r.id)
            /\ Retorna(w, HTTP_204_NO_CONTENT, <<>>, None, NoStats)
            /\ UNCHANGED <<usuarios, pedidos, itens, nextUsuarioId, nextEventoId,
                           nextPedidoId>>

\* ------------------------------------------------------------- orders
\* the catalogue the order specifications start with: two active flavours
SeedSabores ==
    { [id |-> 1, preco_pedaco |-> 2, ativo |-> TRUE],
      [id |-> 2, preco_pedaco |-> 3, ativo |-> TRUE] }

PrecoPedaco(sabor_id) == (CHOOSE sb \in SeedSabores : sb.id = sabor_id).preco_pedaco

\* the shipping values an order may be stored with
Fretes == {0, 1}

\* ItemPedidoCreate: sabor_id, quantidade with gt=0, le=8
ItemValido(i) == i.quantidade > 0 /\ i.quantidade <= MaxQuantidade

\* PedidoCreate: itens with min_items=1
PedidoValido(its) == Len(its) >= 1 /\ \A k \in 1..Len(its) : ItemValido(its[k])

\* order total: the sum of quantidade * preco_pedaco over the line items
RECURSIVE ValorItens(_)
ValorItens(its) ==
    IF its = <<>> THEN 0
    ELSE Head(its).quantidade * PrecoPedaco(Head(its).sabor_id) + ValorItens(Tail(its))

\* the rows of itens_pedido an order owns
ItensDoPedido(pid, its) ==
    { [pedido_id |-> pid, n |-> k, sabor_id |-> its[k].sabor_id,
       quantidade |-> its[k].quantidade,
       preco_unitario |-> PrecoPedaco(its[k].sabor_id)] : k \in 1..Len(its) }

Pedido(id, evento_id, usuario_id, total, frete) ==
    [id |-> id, evento_id |-> evento_id, usuario_id |-> usuario_id,
     valor_total |-> total, valor_frete |-> frete]

\* the order may be placed: the event is open and before its deadline, every
\* flavour exists and is active
JanelaAberta(e, t) == e.status = "ABERTO" /\ e.data_limite > t
SaboresAtivos(its) ==
    \A k \in 1..Len(its) : \E sb \in SeedSabores : sb.id = its[k].sabor_id /\ sb.ativo

\* createOrder(eventId, userId, items)
criar_pedido(w) ==
    /\ Serving(w, "criar_pedido")
    /\ LET r == req[w] IN
       IF CriarPedidoAuth(r.cred) # HTTP_200_OK
       THEN Raise(w, CriarPedidoAuth(r.cred))
       ELSE IF SelectPorId(eventos, r.id) = {}
       THEN Raise(w, HTTP_404_NOT_FOUND)
       ELSE IF \/ \E e \in SelectPorId(eventos, r.id) : ~JanelaAberta(e, now)
               \/ ~PedidoValido(r.itens)
               \/ ~SaboresAtivos(r.itens)
       THEN Raise(w, HTTP_400_BAD_REQUEST)
       ELSE /\ nextPedidoId <= MaxPedidoId
            /\ \E frete \in Fretes :
                  pedidos' = pedidos \cup
                     {Pedido(nextPedidoId, r.id, r.cred, ValorItens(r.itens), frete)}
            /\ itens' = itens \cup ItensDoPedido(nextPedidoId, r.itens)
            /\ nextPedidoId' = nextPedidoId + 1
            /\ Retorna(w, HTTP_201_CREATED, <<>>, None, NoStats)
            /\ UNCHANGED <<usuarios, eventos, nextUsuarioId, nextEventoId>>

\* ------------------------------------------------------------ summary
\* the absent right side of a LEFT JOIN row
NoItem == [pedido_id |-> None, n |-> None, sabor_id |-> None,
           quantidade |-> None, preco_unitario |-> None]

\* FROM pedidos p LEFT JOIN itens_pedido ip ON p.id = ip.pedido_id
\* WHERE p.evento_id = :evento_id
StatsRows(peds, its, id) ==
    LET P == {p \in peds : p.evento_id = id}
    IN  UNION { {[p |-> p, ip |-> ip] : ip \in {i \in its : i.pedido_id = p.id}} :
                    p \in P }
        \cup {[p |-> p, ip |-> NoItem] : p \in {x \in P : \A i \in its : i.pedido_id # x.id}}

\* COUNT(DISTINCT p.usuario_id)
CountDistinctUsuario(rows) == Cardinality({row.p.usuario_id : row \in rows})

\* COUNT(p.id): the rows whose p.id is not NULL
CountPedidoId(rows) == Cardinality({row \in rows : row.p.id # None})

\* SUM(p.valor_total + p.valor_frete); NULL over no rows
RECURSIVE SumValor(_)
SumValor(rows) ==
    IF rows = {} THEN None
    ELSE LET row == CHOOSE x \in rows : TRUE
             rest == SumValor(rows \ {row})
         IN  (row.p.valor_total + row.p.valor_frete) + (IF rest = None THEN 0 ELSE rest)

\* SUM(ip.quantidade): NULL values are skipped; NULL over no value
RECURSIVE SumQuantidade(_)
SumQuantidade(rows) ==
    IF rows = {} THEN None
    ELSE LET row == CHOOSE x \in rows : TRUE
             rest == SumQuantidade(rows \ {row})
         IN  IF row.ip.quantidade = None THEN rest
             ELSE row.ip.quantidade + (IF rest = None THEN 0 ELSE rest)

\* int(x) if x else 0: None and 0 are both false
OrZero(x) == IF x = None \/ x = 0 THEN 0 ELSE x

\* (variant) a started pizza counts as a whole one
TotalPizzasArredondado(total_pedacos) ==
    (total_pedacos + PedacosPorPizza - 1) \div PedacosPorPizza

\* total_pizzas = total_pedacos // 8
TotalPizzas(total_pedacos) == total_pedacos \div PedacosPorPizza

ResumoStats(peds, its, id) ==
    LET rows == StatsRows(peds, its, id)
    IN  [total_participantes |-> OrZero(CountDistinctUsuario(rows)),
         total_pedidos |-> OrZero(CountPedidoId(rows)),
         total_pizzas |-> TotalPizzas(OrZero(SumQuantidade(rows))),
         valor_total |-> OrZero(SumValor(rows))]

obter_resumo_evento(w) ==
    /\ Serving(w, "obter_resumo_evento")
    /\ LET r == req[w] IN
       IF ObterResumoEventoAuth(r.cred) # HTTP_200_OK
       THEN Raise(w, ObterResumoEventoAuth(r.cred))
       ELSE IF SelectPorId(eventos, r.id) = {}
       THEN Raise(w, HTTP_404_NOT_FOUND)
       ELSE /\ \E row \in SelectPorId(eventos, r.id) :
                  Retorna(w, HTTP_200_OK, <<row>>, None,
                          ResumoStats(pedidos, itens, r.id))
            /\ UNCHANGED tables

\* ------------------------------------------------------- registration
\* SELECT id FROM usuarios WHERE nome_completo = :nome
SelectUsuarioPorNome(us, nome) == {u \in us : u.nome_completo = nome}

\* (variant) the handler inserts without looking for the name
ExistingOmitido(us, nome) == FALSE

\* if existing
Existing(us, nome) == SelectUsuarioPorNome(us, nome) # {}

\* INSERT INTO usuarios (nome_completo, senha_hash, setor, is_admin)
InsertUsuario(us, id, nome, hash, setor, admin) ==
    us \cup {[id |-> id, nome_completo |-> nome, setor |-> setor,
              senha_hash |-> hash, is_admin |-> admin]}

register(w) ==
    /\ Serving(w, "register")
    /\ LET r == req[w] IN
       IF Existing(usuarios, r.nome_completo)
       THEN Raise(w, HTTP_400_BAD_REQUEST)
       ELSE /\ nextUsuarioId <= MaxUsuarioId
            /\ usuarios' = InsertUsuario(usuarios, nextUsuarioId, r.nome_completo,
                                         GetPasswordHash(r.senha), r.setor, r.is_admin)
            /\ nextUsuarioId' = nextUsuarioId + 1
            /\ \E row \in SelectUsuarioPorNome(usuarios', r.nome_completo) :
                  Retorna(w, HTTP_201_CREATED, <<row>>, None, NoStats)
            /\ UNCHANGED <<eventos, pedidos, itens, nextEventoId, nextPedidoId>>

\* ------------------------------------------- handlers, by SQL statement
\* Each execute_query call and each `with get_db_connection()` block is a
\* round trip of its own: between two of them other workers' statements run.
Avanca(w, label) ==
    /\ pc' = [pc EXCEPT ![w] = label]
    /\ UNCHANGED <<req, resp, now>>

\* criar_evento: the existence check
criar_evento_check(w) ==
    /\ Serving(w, "criar_evento")
    /\ IF CriarEventoAuth(req[w].cred) # HTTP_200_OK
       THEN Raise(w, CriarEventoAuth(req[w].cred))
       ELSE IF SelectPorData(eventos, req[w].data_evento) # {}
       THEN Raise(w, HTTP_400_BAD_REQUEST)
       ELSE Avanca(w, "criar_insert") /\ UNCHANGED tables

\* criar_evento: INSERT and commit
criar_evento_insert(w) ==
    /\ pc[w] = "criar_insert"
    /\ nextEventoId <= MaxEventoId
    /\ eventos' = InsertEvento(eventos, nextEventoId, req[w].data_evento,
                               req[w].data_limite, req[w].status)
    /\ nextEventoId' = nextEventoId + 1
    /\ Avanca(w, "criar_select")
    /\ UNCHANGED <<usuarios, pedidos, itens, nextUsuarioId, nextPedidoId>>

\* result[0] of a fetchone() that found a row, or of None
FetchOne(w, rows, code) ==
    IF rows = {}
    THEN Raise(w, HTTP_500_INTERNAL)
    ELSE /\ \E row \in rows : Retorna(w, code, <<row>>, None, NoStats)
         /\ UNCHANGED tables

\* criar_evento: the SELECT of the created event, fetchone
criar_evento_select(w) ==
    /\ pc[w] = "criar_select"
    /\ FetchOne(w, SelectPorData(eventos, req[w].data_evento), HTTP_201_CREATED)

\* atualizar_evento: the existence check and the SET clauses
atualizar_evento_check(w) ==
    /\ Serving(w, "atualizar_evento")
    /\ IF AtualizarEventoAuth(req[w].cred) # HTTP_200_OK
       THEN Raise(w, AtualizarEventoAuth(req[w].cred))
       ELSE IF SelectPorId(eventos, req[w].id) = {}
       THEN Raise(w, HTTP_404_NOT_FOUND)
       ELSE IF SemCampos(req[w].status, req[w].data_limite)
       THEN Raise(w, HTTP_400_BAD_REQUEST)
       ELSE Avanca(w, "atualizar_update") /\ UNCHANGED tables

\* atualizar_evento: UPDATE and commit
atualizar_evento_update(w) ==
    /\ pc[w] = "atualizar_update"
    /\ eventos' = UpdateEvento(eventos, req[w].id, req[w].status, req[w].data_limite)
    /\ Avanca(w, "atualizar_select")
    /\ UNCHANGED <<usuarios, pedidos, itens, nextUsuarioId, nextEventoId,
                   nextPedidoId>>

\* atualizar_evento: the SELECT of the updated event, fetchone
atualizar_evento_select(w) ==
    /\ pc[w] = "atualizar_select"
    /\ FetchOne(w, SelectPorId(eventos, req[w].id), HTTP_200_OK)

\* deletar_evento: the order count
deletar_evento_check(w) ==
    /\ Serving(w, "deletar_evento")
    /\ IF DeletarEventoAuth(req[w].cred) # HTTP_200_OK
       THEN Raise(w, DeletarEventoAuth(req[w].cred))
       ELSE IF TemPedidos(CountPedidos(pedidos, req[w].id))
       THEN /\ Retorna(w, HTTP_400_BAD_REQUEST, <<>>,
                       CountPedidos(pedidos, req[w].id), NoStats)
            /\ UNCHANGED tables
       ELSE Avanca(w, "deletar_delete") /\ UNCHANGED tables

\* deletar_evento: DELETE, rowcount, commit
deletar_evento_delete(w) ==
    /\ pc[w] = "deletar_delete"
    /\ IF SelectPorId(eventos, req[w].id) = {}
       THEN Raise(w, HTTP_404_NOT_FOUND)
       ELSE /\ eventos' = DeleteEvento(eventos, req[w].id)
            /\ Retorna(w, HTTP_204_NO_CONTENT, <<>>, None, NoStats)
            /\ UNCHANGED <<usuarios, pedidos, itens, nextUsuarioId, nextEventoId,
                           nextPedidoId>>

\* the database clock advances
Tick ==
    /\ now < MaxTime
    /\ now' = now + 1
    /\ UNCHANGED <<tables, pc, req, resp>>

\* ------------------------------------------------------ specifications
Init ==
    /\ usuarios = SeedUsuarios
    /\ eventos = {}
    /\ pedidos = {}
    /\ itens = {}
    /\ nextUsuarioId = 3
    /\ nextEventoId = 1
    /\ nextPedidoId = 1
    /\ now = 0
    /\ pc = [w \in Workers |-> "idle"]
    /\ req = [w \in Workers |-> NoReq]
    /\ resp = [w \in Workers |-> NoResp]

ReqEvento(op, cred, id, d, l, s) ==
    [NoReq EXCEPT !.op = op, !.cred = cred, !.id = id, !.data_evento = d,
                  !.data_limite = l, !.status = s]

\* the requests of the event routes a caller with credential cred may send
RequestsDe(cred) ==
    {ReqEvento(op, cred, None, None, None, NULL) :
        op \in {"listar_eventos", "obter_evento_ativo"}}
    \cup {ReqEvento(op, cred, id, None, None, NULL) :
        op \in {"obter_evento", "deletar_evento", "obter_resumo_evento"},
        id \in EventoIds}
    \cup {ReqEvento("criar_evento", cred, None, d, l, s) :
        d \in Datas, l \in Limites, s \in {NULL, "FECHADO"}}
    \cup {ReqEvento("atualizar_evento", cred, id, None, l, s) :
        id \in EventoIds, l \in Limites \cup {None}, s \in StatusEvento \cup {NULL}}

\* one path and body per route
CorpoUnico(r) ==
    /\ r.id \in {None, 1}
    /\ r.data_evento \in {None, 1}
    /\ r.data_limite \in {None, 1}
    /\ r.status \in {NULL, "FECHADO"}
    /\ r.op = "atualizar_evento" => r.data_limite = 1 /\ r.status = "FECHADO"
    /\ r.op = "criar_evento" => r.status = NULL

\* the admin sends every request; the other callers one request per route
RequestsEventos ==
    RequestsDe(1) \cup {r \in RequestsDe(SemCredencial) \cup RequestsDe(2) : CorpoUnico(r)}

\* one server process: worker 1 serves one request at a time
ReceberEvento == \E r \in RequestsEventos : Receber(1, r)
ListarEventos == listar_eventos(1)
ObterEventoAtivo == obter_evento_ativo(1)
ObterEvento == obter_evento(1)
CriarEvento == criar_evento(1)
AtualizarEvento == atualizar_evento(1)
DeletarEvento == deletar_evento(1)
ObterResumoEvento == obter_resumo_evento(1)
Responde == Responder(1)

Next ==
    \/ ReceberEvento
    \/ ListarEventos
    \/ ObterEventoAtivo
    \/ ObterEvento
    \/ CriarEvento
    \/ AtualizarEvento
    \/ DeletarEvento
    \/ ObterResumoEvento
    \/ Responde
    \/ Tick

Spec == Init /\ [][Next]_vars

\* -------------------------------------------------- orders and summary
Item(sabor_id, quantidade) == [sabor_id |-> sabor_id, quantidade |-> quantidade]

\* the line items order requests carry
ItensPedidos == { <<Item(1, 3)>>, <<Item(1, 8), Item(2, 5)>> }

ReqPedido(cred, id, its) ==
    [NoReq EXCEPT !.op = "criar_pedido", !.cred = cred, !.id = id, !.itens = its]

RequestsPedidos ==
    {ReqEvento("criar_evento", 1, None, d, MaxTime, NULL) : d \in Datas}
    \cup {ReqEvento(op, 1, id, None, None, NULL) :
            op \in {"deletar_evento", "obter_resumo_evento"}, id \in EventoIds}
    \cup {ReqPedido(cred, id, its) :
            cred \in {1, 2}, id \in EventoIds, its \in ItensPedidos}

ReceberPedido == \E r \in RequestsPedidos : Receber(1, r)
CriarPedido == criar_pedido(1)

NextPedidos ==
    \/ ReceberPedido
    \/ CriarEvento
    \/ CriarPedido
    \/ DeletarEvento
    \/ ObterResumoEvento
    \/ Responde

SpecPedidos == Init /\ [][NextPedidos]_vars

\* -------------------------------------------------------- registration
Nomes == {"ana", "bob", "cid"}
Setores == {"TI", "RH"}
Senhas == {"s1", "s2"}

RequestsAuth ==
    {[NoReq EXCEPT !.op = "register", !.nome_completo = nome, !.setor = setor,
                   !.senha = senha, !.is_admin = admin] :
        nome \in Nomes, setor \in Setores, senha \in Senhas, admin \in BOOLEAN}

\* an empty usuarios table
InitAuth ==
    /\ usuarios = {}
    /\ eventos = {}
    /\ pedidos = {}
    /\ itens = {}
    /\ nextUsuarioId = 1
    /\ nextEventoId = 1
    /\ nextPedidoId = 1
    /\ now = 0
    /\ pc = [w \in Workers |-> "idle"]
    /\ req = [w \in Workers |-> NoReq]
    /\ resp = [w \in Workers |-> NoResp]

ReceberRegister == \E r \in RequestsAuth : Receber(1, r)
Register == register(1)

NextAuth ==
    \/ ReceberRegister
    \/ Register
    \/ Responde

SpecAuth == InitAuth /\ [][NextAuth]_vars

\* ------------------------------------------------------ several workers
RequestsConc ==
    {ReqEvento("criar_evento", 1, None, d, 1, NULL) : d \in Datas}
    \cup {ReqEvento("deletar_evento", 1, id, None, None, NULL) : id \in 1..MaxEventoId}
    \cup {ReqEvento("atualizar_evento", 1, id, None, None, "FECHADO") :
            id \in 1..MaxEventoId}
    \cup {ReqPedido(2, id, <<Item(1, 3)>>) : id \in 1..MaxEventoId}

ReceberConc == \E w \in Workers, r \in RequestsConc : Receber(w, r)
CriarEventoCheck == \E w \in Workers : criar_evento_check(w)
CriarEventoInsert == \E w \in Workers : criar_evento_insert(w)
CriarEventoSelect == \E w \in Workers : criar_evento_select(w)
AtualizarEventoCheck == \E w \in Workers : atualizar_evento_check(w)
AtualizarEventoUpdate == \E w \in Workers : atualizar_evento_update(w)
AtualizarEventoSelect == \E w \in Workers : atualizar_evento_select(w)
DeletarEventoCheck == \E w \in Workers : deletar_evento_check(w)
DeletarEventoDelete == \E w \in Workers : deletar_evento_delete(w)
CriarPedidoConc == \E w \in Workers : criar_pedido(w)
RespondeConc == \E w \in Workers : Responder(w)

NextConc ==
    \/ ReceberConc
    \/ CriarEventoCheck
    \/ CriarEventoInsert
    \/ CriarEventoSelect
    \/ AtualizarEventoCheck
    \/ AtualizarEventoUpdate
    \/ AtualizarEventoSelect
    \/ DeletarEventoCheck
    \/ DeletarEventoDelete
    \/ CriarPedidoConc
    \/ RespondeConc

SpecConc == Init /\ [][NextConc]_vars

\* ---------------------------------------------------------------- claims
\* worker w's handler for route op runs in this step
Handled(w, op) == pc[w] = "recebido" /\ pc'[w] = "respondido" /\ req[w].op = op

\* worker w has answered a request for route op with status code
Answered(w, op, code) ==
    pc[w] = "respondido" /\ req[w].op = op /\ resp[w].code = code

EhAdmin(cred) == \E u \in usuarios : u.id = cred /\ u.is_admin
NaoAdmin(cred) == \E u \in usuarios : u.id = cred /\ ~u.is_admin
NaoAutenticado(cred) == \A u \in usuarios : u.id # cred

\* C2: criar_evento(date, deadline) by an admin: when an event with that date
\* is stored the response is 400 and the events are unchanged; otherwise the
\* response is 201, exactly one event is added, with the given date and
\* deadline, and the stored and returned status is ABERTO whatever the body said.
C2_CriarEvento ==
    [][ (Handled(1, "criar_evento") /\ EhAdmin(req[1].cred)) =>
          LET r == req[1] IN
          IF \E e \in eventos : e.data_evento = r.data_evento
          THEN resp'[1].code = HTTP_400_BAD_REQUEST /\ eventos' = eventos
          ELSE /\ resp'[1].code = HTTP_201_CREATED
               /\ \E id \in EventoIds :
                     LET novo == Evento(id, r.data_evento, r.data_limite, "ABERTO")
                     IN  /\ \A e \in eventos : e.id # id
                         /\ eventos' = eventos \cup {novo}
                         /\ resp'[1].body = <<novo>> ]_vars

\* an event was created, beside a stored one, from a body that said FECHADO
C2_Witness ==
    /\ Answered(1, "criar_evento", HTTP_201_CREATED)
    /\ req[1].status = "FECHADO"
    /\ Cardinality(eventos) = 2

\* C4: obter_evento_ativo never returns an event whose status is not ABERTO or
\* whose data_limite is not strictly later than the current time; when events
\* qualify it returns exactly one, of the greatest data_evento among them;
\* when none does it answers 404.
C4_EventoAtivo ==
    [][ (Handled(1, "obter_evento_ativo") /\ ~NaoAutenticado(req[1].cred)) =>
          LET q == {e \in eventos : e.status = "ABERTO" /\ e.data_limite > now}
          IN  IF q = {}
              THEN resp'[1].code = HTTP_404_NOT_FOUND /\ resp'[1].body = <<>>
              ELSE /\ resp'[1].code = HTTP_200_OK
                   /\ Len(resp'[1].body) = 1
                   /\ resp'[1].body[1] \in q
                   /\ \A e \in q : e.data_evento <= resp'[1].body[1].data_evento ]_vars

\* two stored events qualify and the later one is returned
C4_Witness ==
    /\ Answered(1, "obter_evento_ativo", HTTP_200_OK)
    /\ now > 0
    /\ Cardinality({e \in eventos : e.status = "ABERTO" /\ e.data_limite > now}) = 2
    /\ resp[1].body[1].data_evento = 2

\* C7: atualizar_evento applies only the fields the request provides: status
\* alone leaves data_limite, data_limite alone leaves status, and id,
\* data_evento and every other event are unchanged; a missing id answers 404
\* and a request with neither field 400, both leaving the events unchanged.
C7_AtualizarParcial ==
    [][ (Handled(1, "atualizar_evento") /\ EhAdmin(req[1].cred)) =>
          LET r == req[1] IN
          IF \A e \in eventos : e.id # r.id
          THEN resp'[1].code = HTTP_404_NOT_FOUND /\ eventos' = eventos
          ELSE IF r.status = NULL /\ r.data_limite = None
          THEN resp'[1].code = HTTP_400_BAD_REQUEST /\ eventos' = eventos
          ELSE /\ resp'[1].code = HTTP_200_OK
               /\ \E e \in eventos :
                    LET e2 == Evento(e.id, e.data_evento,
                                     IF r.data_limite = None THEN e.data_limite
                                     ELSE r.data_limite,
                                     IF r.status = NULL THEN e.status ELSE r.status)
                    IN  /\ e.id = r.id
                        /\ eventos' = (eventos \ {e}) \cup {e2}
                        /\ resp'[1].body = <<e2>> ]_vars

\* the deadline alone of a closed event was updated, beside another event
C7_Witness ==
    /\ Answered(1, "atualizar_evento", HTTP_200_OK)
    /\ req[1].status = NULL
    /\ req[1].data_limite = 2
    /\ resp[1].body[1].status = "FECHADO"
    /\ Cardinality(eventos) = 2

RotasAdmin ==
    {"criar_evento", "atualizar_evento", "deletar_evento", "obter_resumo_evento"}
RotasUsuario == {"listar_eventos", "obter_evento_ativo", "obter_evento"}

\* C9: criar_evento, atualizar_evento, deletar_evento and obter_resumo_evento
\* act only for an admin: from an authenticated non-admin they answer 403,
\* without a valid credential 401, and the tables are unchanged; listar_eventos,
\* obter_evento_ativo and obter_evento serve any authenticated user.
C9_SomenteAdmin ==
    [][ \A op \in RotasAdmin \cup RotasUsuario :
          Handled(1, op) =>
            LET cred == req[1].cred IN
            /\ (op \in RotasAdmin /\ NaoAdmin(cred)) =>
                  resp'[1].code = HTTP_403_FORBIDDEN /\ UNCHANGED tables
            /\ (op \in RotasAdmin /\ NaoAutenticado(cred)) =>
                  resp'[1].code = HTTP_401_UNAUTHORIZED /\ UNCHANGED tables
            /\ (op \in RotasUsuario /\ ~NaoAutenticado(cred)) =>
                  resp'[1].code \notin {HTTP_401_UNAUTHORIZED, HTTP_403_FORBIDDEN}
            /\ (op \in RotasUsuario /\ NaoAutenticado(cred)) =>
                  resp'[1].code = HTTP_401_UNAUTHORIZED ]_vars

\* a non-admin asked to delete a stored event and was refused
C9_Witness ==
    /\ Answered(1, "deletar_evento", HTTP_403_FORBIDDEN)
    /\ \E e \in eventos : e.id = req[1].id

\* C1: at most one event per calendar date, in every state the event routes
\* reach, two criar_evento requests for one date interleaving included.
C1_DataUnica ==
    \A e1, e2 \in eventos : e1.data_evento = e2.data_evento => e1 = e2

PedidosDoEvento(id) == {p \in pedidos : p.evento_id = id}

\* C3: deletar_evento(id) by an admin: with no order of the event and the
\* event stored, the response is 204 and exactly that event is removed; with
\* n >= 1 orders the response is 400 and reports n, and the events and the
\* orders are unchanged.
C3_DeletarEvento ==
    [][ (Handled(1, "deletar_evento") /\ EhAdmin(req[1].cred)) =>
          LET id == req[1].id
              n == Cardinality(PedidosDoEvento(id))
          IN  /\ n >= 1 =>
                    /\ resp'[1].code = HTTP_400_BAD_REQUEST
                    /\ resp'[1].n = n
                    /\ UNCHANGED <<eventos, pedidos, itens>>
              /\ (n = 0 /\ \E e \in eventos : e.id = id) =>
                    /\ resp'[1].code = HTTP_204_NO_CONTENT
                    /\ eventos' = {e \in eventos : e.id # id}
                    /\ UNCHANGED <<pedidos, itens>> ]_vars

\* the event of one order was not deleted, beside an event without orders
C3_Witness ==
    /\ Answered(1, "deletar_evento", HTTP_400_BAD_REQUEST)
    /\ resp[1].n = 1
    /\ Cardinality(eventos) = 2

RECURSIVE SomaValores(_)
SomaValores(P) ==
    IF P = {} THEN 0
    ELSE LET p == CHOOSE x \in P : TRUE
         IN  p.valor_total + p.valor_frete + SomaValores(P \ {p})

RECURSIVE SomaPedacos(_)
SomaPedacos(I) ==
    IF I = {} THEN 0
    ELSE LET i == CHOOSE x \in I : TRUE IN i.quantidade + SomaPedacos(I \ {i})

ItensDoEvento(id) ==
    {i \in itens : \E p \in PedidosDoEvento(id) : i.pedido_id = p.id}

Resumido == Handled(1, "obter_resumo_evento") /\ resp'[1].code = HTTP_200_OK

\* C5: obter_resumo_evento returns total_pedidos equal to the number of
\* orders of the event and valor_total equal to the sum over those orders of
\* valor_total + valor_frete, each order counted once however many line
\* items it has.
C5_PedidosEValor ==
    [][ Resumido =>
          /\ resp'[1].stats.total_pedidos = Cardinality(PedidosDoEvento(req[1].id))
          /\ resp'[1].stats.valor_total = SomaValores(PedidosDoEvento(req[1].id)) ]_vars

\* C6: with S the sum of quantidade over the line items of the event's
\* orders, obter_resumo_evento returns total_pizzas = floor(S / 8) and
\* total_participantes equal to the number of distinct users with an order
\* of the event; all four aggregates are 0 when the event has no orders.
C6_PizzasEParticipantes ==
    [][ Resumido =>
          LET P == PedidosDoEvento(req[1].id)
              S == SomaPedacos(ItensDoEvento(req[1].id))
              st == resp'[1].stats
          IN  /\ st.total_pizzas * PedacosPorPizza <= S
              /\ S < (st.total_pizzas + 1) * PedacosPorPizza
              /\ st.total_participantes = Cardinality({p.usuario_id : p \in P})
              /\ P = {} => /\ st.total_participantes = 0
                           /\ st.total_pedidos = 0
                           /\ st.total_pizzas = 0
                           /\ st.valor_total = 0 ]_vars

\* one user's two orders of 3 and 13 slices were summed up to two pizzas
C6_Witness ==
    /\ Answered(1, "obter_resumo_evento", HTTP_200_OK)
    /\ Cardinality(PedidosDoEvento(req[1].id)) = 2
    /\ resp[1].stats.total_participantes = 1
    /\ resp[1].stats.total_pizzas = 2
    /\ SomaPedacos(ItensDoEvento(req[1].id)) = 16

\* C8: register with a nome_completo that is already stored answers 400 and
\* leaves the stored record (sector, password hash, admin flag) as it is;
\* with a new name it answers 201 and adds that user; so there is at most
\* one user per name after any sequence of register requests.
C8_NomeUnico ==
    /\ [](\A u1, u2 \in usuarios : u1.nome_completo = u2.nome_completo => u1 = u2)
    /\ [][ Handled(1, "register") =>
             LET r == req[1] IN
             IF \E u \in usuarios : u.nome_completo = r.nome_completo
             THEN resp'[1].code = HTTP_400_BAD_REQUEST /\ usuarios' = usuarios
             ELSE /\ resp'[1].code = HTTP_201_CREATED
                  /\ Cardinality(usuarios') = Cardinality(usuarios) + 1
                  /\ usuarios \subseteq usuarios'
                  /\ \E u \in usuarios' \ usuarios :
                        /\ u.nome_completo = r.nome_completo
                        /\ u.setor = r.setor
                        /\ u.is_admin = r.is_admin ]_vars

\* a second register of a stored name, with another sector, password and
\* admin flag, was refused
C8_Witness ==
    /\ Answered(1, "register", HTTP_400_BAD_REQUEST)
    /\ \E u \in usuarios :
          /\ u.nome_completo = req[1].nome_completo
          /\ u.setor # req[1].setor
          /\ u.senha_hash # GetPasswordHash(req[1].senha)
          /\ u.is_admin # req[1].is_admin

====
